---- MODULE Spec2Model ----
(***************************************************************************)
(* The template tags of pagetags/templatetags/page_tags.py:                *)
(*   tags_of_pages_with_tags, pages_with_tags, pages_similar_with.         *)
(* A string is a sequence of one-character strings, so that the first and  *)
(* last character, slices and splitting are computed as Python does.       *)
(***************************************************************************)
EXTENDS Integers, Sequences, FiniteSets, TLC

VARIABLES
    token,        \* token.contents: the words of the directive invocation
    groups,       \* m.groups() of the clause regex of the last compile
    node,         \* the compiled template.Node (NoNode before compilation)
    compiled,     \* "no" | "ok" | "TemplateSyntaxError"
    bound,        \* the binder object's current content (list of tags / _value)
    prevBound,    \* the binder's content when the last render started
    pages,        \* database: the Page rows with their PageTagging
    matchAll,     \* tagging library matches all (TRUE) or any (FALSE) of the tags
    context,      \* the render context of the last sequential render
    ctxBefore,    \* that context as it was handed to render
    last,         \* outcome of the last sequential render
    pc,           \* per concurrent render: position inside render
    tctx,         \* per concurrent render: its own context
    tctxIn,       \* per concurrent render: its context as handed in
    tlocal        \* per concurrent render: local page_taggings and query input

vars == <<token, groups, node, compiled, bound, prevBound, pages, matchAll,
          context, ctxBefore, last, pc, tctx, tctxIn, tlocal>>

----------------------------------------------------------------------------
(* Bounds of the model *)

\* number of free words between the directive name and the clause tail
MaxHeadWords == 3
\* number of pages in the database
NumPages == 3

----------------------------------------------------------------------------
(* Characters and strings *)

DQ == "\""
SQ == "'"
SP == " "
COMMA == ","

Digits == {"0", "1", "2", "3", "4", "5", "6", "7", "8", "9"}

LowerLetters ==
    {"a", "b", "c", "d", "e", "f", "g", "h", "i", "j", "k", "l", "m",
     "n", "o", "p", "q", "r", "s", "t", "u", "v", "w", "x", "y", "z"}

\* the regex class \w
WordChars == LowerLetters \cup Digits \cup {"_"}

AS == <<"a", "s">>
ORDER == <<"o", "r", "d", "e", "r">>
LIMIT == <<"l", "i", "m", "i", "t">>
ALPHABETICAL == <<"a", "l", "p", "h", "a", "b", "e", "t", "i", "c", "a", "l">>
CHRONOLOGICAL == <<"c", "h", "r", "o", "n", "o", "l", "o", "g", "i", "c", "a", "l">>
TAGS_OF_PAGES_WITH_TAGS ==
    <<"t", "a", "g", "s", "_", "o", "f", "_", "p", "a", "g", "e", "s", "_",
      "w", "i", "t", "h", "_", "t", "a", "g", "s">>
PAGES_WITH_TAGS ==
    <<"p", "a", "g", "e", "s", "_", "w", "i", "t", "h", "_", "t", "a", "g", "s">>
PAGES_SIMILAR_WITH ==
    <<"p", "a", "g", "e", "s", "_", "s", "i", "m", "i", "l", "a", "r", "_",
      "w", "i", "t", "h">>

Directives == {TAGS_OF_PAGES_WITH_TAGS, PAGES_WITH_TAGS, PAGES_SIMILAR_WITH}

\* Python's None for a regex group that did not take part in the match
None == <<"N", "o", "n", "e">>

Range(s) == {s[i] : i \in 1..Len(s)}

Min(a, b) == IF a < b THEN a ELSE b

\* " ".join(words)
RECURSIVE Join(_)
Join(ws) ==
    IF Len(ws) = 0 THEN <<>>
    ELSE IF Len(ws) = 1 THEN ws[1]
    ELSE ws[1] \o <<SP>> \o Join(Tail(ws))

\* s[1:-1]
Inner(s) == IF Len(s) < 2 THEN <<>> ELSE SubSeq(s, 2, Len(s) - 1)

\* s.strip()
RECURSIVE Strip(_)
Strip(s) ==
    IF Len(s) = 0 THEN s
    ELSE IF s[1] = SP THEN Strip(Tail(s))
    ELSE IF s[Len(s)] = SP THEN Strip(SubSeq(s, 1, Len(s) - 1))
    ELSE s

\* s.split(d): the chunks between the occurrences of the character d
RECURSIVE SplitAt(_, _, _, _)
SplitAt(s, d, i, cur) ==
    IF i > Len(s) THEN <<cur>>
    ELSE IF s[i] = d THEN <<cur>> \o SplitAt(s, d, i + 1, <<>>)
    ELSE SplitAt(s, d, i + 1, Append(cur, s[i]))

\* tagging.utils.split_strip: split, strip every chunk, drop the empty ones
split_strip(s, d) ==
    LET chunks == SplitAt(s, d, 1, <<>>)
        stripped == [i \in 1..Len(chunks) |-> Strip(chunks[i])]
    IN  SelectSeq(stripped, LAMBDA w : w # <<>>)

\* the scanning loop of parse_tag_input for an input with quotes or commas
RECURSIVE ScanTagInput(_, _, _, _, _, _, _)
ScanTagInput(s, i, open_quote, buffer, words, to_be_split, saw_loose_comma) ==
    IF i > Len(s)
    THEN LET comma == saw_loose_comma \/ (open_quote /\ COMMA \in Range(buffer))
             rest  == IF buffer # <<>> THEN Append(to_be_split, buffer)
                      ELSE to_be_split
             delim == IF comma THEN COMMA ELSE SP
         IN  words \cup UNION {Range(split_strip(rest[k], delim)) : k \in 1..Len(rest)}
    ELSE IF open_quote
    THEN IF s[i] = DQ
         THEN ScanTagInput(s, i + 1, FALSE, <<>>,
                           IF Strip(buffer) # <<>> THEN words \cup {Strip(buffer)}
                           ELSE words,
                           to_be_split, saw_loose_comma)
         ELSE ScanTagInput(s, i + 1, TRUE, Append(buffer, s[i]), words,
                           to_be_split, saw_loose_comma)
    ELSE IF s[i] = DQ
         THEN ScanTagInput(s, i + 1, TRUE, <<>>, words,
                           IF buffer # <<>> THEN Append(to_be_split, buffer)
                           ELSE to_be_split,
                           saw_loose_comma)
         ELSE ScanTagInput(s, i + 1, FALSE, Append(buffer, s[i]), words,
                           to_be_split, saw_loose_comma \/ s[i] = COMMA)

\* tagging.utils.parse_tag_input: the sorted list of distinct tag names of an
\* input string, represented by the set of its elements
parse_tag_input(input) ==
    IF input = <<>> THEN {}
    ELSE IF COMMA \notin Range(input) /\ DQ \notin Range(input)
    THEN Range(split_strip(input, SP))
    ELSE ScanTagInput(input, 1, FALSE, <<>>, {}, <<>>, FALSE)

\* shlex.split of a tag string made of plain words: the words in order,
\* repetitions kept
shlex_split(s) == split_strip(s, SP)

\* int() of a string of decimal digits
DigitValue(c) ==
    CASE c = "0" -> 0 [] c = "1" -> 1 [] c = "2" -> 2 [] c = "3" -> 3
      [] c = "4" -> 4 [] c = "5" -> 5 [] c = "6" -> 6 [] c = "7" -> 7
      [] c = "8" -> 8 [] c = "9" -> 9

RECURSIVE int(_)
int(s) ==
    IF Len(s) = 0 THEN 0
    ELSE 10 * int(SubSeq(s, 1, Len(s) - 1)) + DigitValue(s[Len(s)])

----------------------------------------------------------------------------
(* Value binders *)

NoBinder == [cls |-> "none", text |-> <<>>, varname |-> <<>>]

\* class StaticSlug(unicode): the slug literal itself
StaticSlug(text) == [cls |-> "StaticSlug", text |-> text, varname |-> <<>>]

\* class DynamicSlug: __init__ keeps the variable name, _value = u''
DynamicSlug(varname) == [cls |-> "DynamicSlug", text |-> <<>>, varname |-> varname]

\* class StaticTags(list): built from the literal by parse_tag_input
StaticTags(tags) == [cls |-> "StaticTags", text |-> tags, varname |-> <<>>]

\* class DynamicTags(list): __init__ keeps the variable name, the list is empty
DynamicTags(varname) == [cls |-> "DynamicTags", text |-> <<>>, varname |-> varname]

IsStatic(b) == b.cls \in {"StaticSlug", "StaticTags"}
IsDynamic(b) == b.cls \in {"DynamicSlug", "DynamicTags"}

\* the content of a binder object right after its constructor ran
InitialContent(b) ==
    CASE b.cls = "StaticTags"  -> [tags |-> parse_tag_input(b.text), slug |-> <<>>]
      [] b.cls = "StaticSlug"  -> [tags |-> {}, slug |-> b.text]
      [] OTHER                 -> [tags |-> {}, slug |-> <<>>]

\* the test of parsed_tags and parse_slug on their argument
IsQuotedArg(quoted_or_var) ==
    /\ quoted_or_var[1] = quoted_or_var[Len(quoted_or_var)]
    /\ quoted_or_var[1] \in {DQ, SQ}

parsed_tags(quoted_or_var) ==
    IF IsQuotedArg(quoted_or_var)
    THEN StaticTags(Inner(quoted_or_var))
    ELSE DynamicTags(quoted_or_var)

parse_slug(quoted_or_var) ==
    IF IsQuotedArg(quoted_or_var)
    THEN StaticSlug(Inner(quoted_or_var))
    ELSE DynamicSlug(quoted_or_var)

----------------------------------------------------------------------------
(* Argument lexer and clause parsers.  token.contents is kept as its       *)
(* whitespace-separated words; the text of a regex group is the words it   *)
(* spans joined by single blanks.                                          *)

NoGroups == [tags |-> None, ordering |-> None, limit |-> None, var_name |-> None]

\* token.contents.split(None, 1), ValueError when there is one word only
extract_tag_content(contents) ==
    IF Len(contents) < 2
    THEN [err |-> TRUE, tag_name |-> contents[1], arg |-> <<>>]
    ELSE [err |-> FALSE, tag_name |-> contents[1], arg |-> Tail(contents)]

IsDigitWord(w) == Len(w) > 0 /\ \A i \in 1..Len(w) : w[i] \in Digits

\* (\w+): the longest prefix of word characters
RECURSIVE WordPrefix(_)
WordPrefix(w) ==
    IF Len(w) = 0 \/ w[1] \notin WordChars THEN <<>>
    ELSE <<w[1]>> \o WordPrefix(Tail(w))

\* (\s+ order \s+ (alphabetical|chronological))* from word i on: the word
\* after the clauses and the last ordering captured
RECURSIVE OrderClauses(_, _, _)
OrderClauses(ws, i, cur) ==
    IF i + 1 <= Len(ws) /\ ws[i] = ORDER /\ ws[i + 1] \in {ALPHABETICAL, CHRONOLOGICAL}
    THEN OrderClauses(ws, i + 2, ws[i + 1])
    ELSE <<i, cur>>

\* (\s+ limit \s+ (\d+))* from word i on
RECURSIVE LimitClauses(_, _, _)
LimitClauses(ws, i, cur) ==
    IF i + 1 <= Len(ws) /\ ws[i] = LIMIT /\ IsDigitWord(ws[i + 1])
    THEN LimitClauses(ws, i + 2, ws[i + 1])
    ELSE <<i, cur>>

\* \s+ as \s+ (\w+) \s* at word j
AsClause(ws, j) ==
    /\ j + 1 <= Len(ws)
    /\ ws[j] = AS
    /\ ws[j + 1][1] \in WordChars

\* the part of the pattern after (.*?), tried with the first k words taken
\* by (.*?)
TailMatch(ws, k, withOrder, withLimit) ==
    LET o == IF withOrder THEN OrderClauses(ws, k + 1, None) ELSE <<k + 1, None>>
        l == IF withLimit THEN LimitClauses(ws, o[1], None) ELSE <<o[1], None>>
    IN  IF AsClause(ws, l[1])
        THEN [ok |-> TRUE,
              groups |-> [tags |-> Join(SubSeq(ws, 1, k)), ordering |-> o[2],
                          limit |-> l[2], var_name |-> WordPrefix(ws[l[1] + 1])]]
        ELSE [ok |-> FALSE, groups |-> NoGroups]

\* the pattern with its "as" clause made optional
re_search_optional_as(ws, withOrder, withLimit) ==
    LET ks == {k \in 1..Len(ws) : TailMatch(ws, k, withOrder, withLimit).ok}
    IN  IF ks = {}
        THEN [ok |-> TRUE, groups |-> [NoGroups EXCEPT !.tags = Join(ws)]]
        ELSE TailMatch(ws, CHOOSE k \in ks : \A j \in ks : k <= j,
                       withOrder, withLimit)

\* re.search: (.*?) is not greedy, so the match with the fewest words in the
\* first group is the one found; it cannot be empty, arg starts with a word
re_search(ws, withOrder, withLimit) ==
    LET ks == {k \in 1..Len(ws) : TailMatch(ws, k, withOrder, withLimit).ok}
    IN  IF ks = {} THEN [ok |-> FALSE, groups |-> NoGroups]
        ELSE TailMatch(ws, CHOOSE k \in ks : \A j \in ks : k <= j,
                       withOrder, withLimit)

\* limit and int(limit)
LimitValue(limit) ==
    IF limit = None THEN [given |-> FALSE, n |-> 0]
    ELSE [given |-> TRUE, n |-> int(limit)]

NoLimit == [given |-> FALSE, n |-> 0]

NoNode == [cls |-> "none", binder |-> NoBinder, ordering |-> None,
           limit |-> NoLimit, var_name |-> None]

\* TagsOfTaggedPagesNode.__init__
TagsOfTaggedPagesNode(tags, var_name) ==
    [cls |-> "TagsOfTaggedPagesNode", binder |-> tags, ordering |-> None,
     limit |-> NoLimit, var_name |-> var_name]

\* the node with the other ordering as its default
TaggedPagesNode_alphabetical(tags, ordering, limit, var_name) ==
    [cls |-> "TaggedPagesNode", binder |-> tags,
     ordering |-> IF ordering = None THEN ALPHABETICAL ELSE ordering,
     limit |-> limit, var_name |-> var_name]

\* TaggedPagesNode.__init__: ordering or 'chronological'
TaggedPagesNode(tags, ordering, limit, var_name) ==
    [cls |-> "TaggedPagesNode", binder |-> tags,
     ordering |-> IF ordering = None THEN CHRONOLOGICAL ELSE ordering,
     limit |-> limit, var_name |-> var_name]

\* SimilarPagesNode.__init__
SimilarPagesNode(slug, limit, var_name) ==
    [cls |-> "SimilarPagesNode", binder |-> slug, ordering |-> None,
     limit |-> limit, var_name |-> var_name]

SyntaxError == [status |-> "TemplateSyntaxError", node |-> NoNode, groups |-> NoGroups]

\* tags_of_pages_with_tags with _parse_tags_of_pages_with_tags
tags_of_pages_with_tags(contents) ==
    LET e == extract_tag_content(contents)
        m == re_search(e.arg, FALSE, FALSE)
    IN  IF e.err \/ ~m.ok THEN SyntaxError
        ELSE [status |-> "ok", groups |-> m.groups,
              node |-> TagsOfTaggedPagesNode(parsed_tags(m.groups.tags),
                                             m.groups.var_name)]

\* pages_with_tags with _parse_pages_with_tags
pages_with_tags(contents) ==
    LET e == extract_tag_content(contents)
        m == re_search(e.arg, TRUE, TRUE)
    IN  IF e.err \/ ~m.ok THEN SyntaxError
        ELSE [status |-> "ok", groups |-> m.groups,
              node |-> TaggedPagesNode(parsed_tags(m.groups.tags),
                                       m.groups.ordering,
                                       LimitValue(m.groups.limit),
                                       m.groups.var_name)]

\* pages_similar_with with _parse_pages_similar_with
pages_similar_with(contents) ==
    LET e == extract_tag_content(contents)
        m == re_search(e.arg, FALSE, TRUE)
    IN  IF e.err \/ ~m.ok THEN SyntaxError
        ELSE [status |-> "ok", groups |-> m.groups,
              node |-> SimilarPagesNode(parse_slug(m.groups.tags),
                                        LimitValue(m.groups.limit),
                                        m.groups.var_name)]

\* the template engine calls the function registered under the tag's name
CompileToken(contents) ==
    CASE contents[1] = TAGS_OF_PAGES_WITH_TAGS -> tags_of_pages_with_tags(contents)
      [] contents[1] = PAGES_WITH_TAGS         -> pages_with_tags(contents)
      [] contents[1] = PAGES_SIMILAR_WITH      -> pages_similar_with(contents)

----------------------------------------------------------------------------
(* Render context and database *)

\* settings.SITE_ID
SITE_ID == 1

\* values a context variable can hold
StrValue(s) == [kind |-> "str", str |-> s, pages |-> <<>>, tags |-> {}]
ListValue(l) == [kind |-> "list", str |-> <<>>, pages |-> l, tags |-> {}]
SetValue(t) == [kind |-> "set", str |-> <<>>, pages |-> <<>>, tags |-> t]

\* context[name] = value
CtxSet(ctx, name, value) ==
    [n \in DOMAIN ctx \cup {name} |-> IF n = name THEN value ELSE ctx[n]]

\* PageTagging.objects.filter(page__site=settings.SITE_ID): the pages of the
\* site, each with its PageTagging
SitePages(db) == {i \in 1..Len(db) : db[i].site = SITE_ID}

\* the tags the tagging library associates with a page's PageTagging
PageTags(row) == parse_tag_input(row.page_tags)

\* TaggedItem.objects.get_by_model(queryset, tags): no tags give the empty
\* queryset; otherwise the objects of the queryset carrying the tags
get_by_model(qs, tags, db, all) ==
    IF tags = {} THEN {}
    ELSE IF all THEN {p \in qs : tags \subseteq PageTags(db[p])}
    ELSE {p \in qs : tags \cap PageTags(db[p]) # {}}

\* every order in which the rows of S can come back
RECURSIVE Perms(_)
Perms(S) ==
    IF S = {} THEN {<<>>}
    ELSE UNION {{<<x>> \o L : L \in Perms(S \ {x})} : x \in S}

\* queryset.order_by: rows with equal keys come back in any order
order_by(S, ordering, db) ==
    CASE ordering = ALPHABETICAL ->
            {L \in Perms(S) : \A i, j \in 1..Len(L) :
                i < j => db[L[i]].title <= db[L[j]].title}
      [] ordering = CHRONOLOGICAL ->
            {L \in Perms(S) : \A i, j \in 1..Len(L) :
                i < j => db[L[i]].publication_date >= db[L[j]].publication_date}
      [] OTHER -> Perms(S)

\* the slice taken one entry too long
Slice_one_more(L, limit) ==
    IF limit.given THEN SubSeq(L, 1, Min(limit.n + 1, Len(L))) ELSE L

\* sequence[:limit]
Slice(L, limit) ==
    IF limit.given THEN SubSeq(L, 1, Min(limit.n, Len(L))) ELSE L

SharedTags(db, p, q) == Cardinality(PageTags(db[p]) \cap PageTags(db[q]))

\* TaggedItem.objects.get_related(obj, queryset): the other objects of the
\* queryset sharing a tag with obj, most shared tags first
get_related(p, qs, db) ==
    LET S == {q \in qs : q # p /\ SharedTags(db, p, q) > 0}
    IN  {L \in Perms(S) : \A i, j \in 1..Len(L) :
            i < j => SharedTags(db, p, L[i]) >= SharedTags(db, p, L[j])}

----------------------------------------------------------------------------
(* bind and render *)

\* bind that keeps the old content when the variable is not in the context
BindOp_keep_when_absent(binder, content, ctx) ==
    IF binder.varname \in DOMAIN ctx
    THEN [raised |-> FALSE,
          content |-> IF binder.cls = "DynamicSlug"
                      THEN [tags |-> {}, slug |-> ctx[binder.varname].str]
                      ELSE IF binder.cls = "DynamicTags"
                      THEN [tags |-> parse_tag_input(ctx[binder.varname].str),
                            slug |-> <<>>]
                      ELSE content]
    ELSE [raised |-> binder.cls = "DynamicSlug", content |-> content]

\* bind(context) of the four binder classes, on the binder's content
BindOp(binder, content, ctx) ==
    CASE binder.cls = "DynamicSlug" ->
            IF binder.varname \in DOMAIN ctx
            THEN [raised |-> FALSE,
                  content |-> [tags |-> {}, slug |-> ctx[binder.varname].str]]
            ELSE [raised |-> TRUE, content |-> content]
      [] binder.cls = "DynamicTags" ->
            [raised |-> FALSE,
             content |-> [tags |-> parse_tag_input(
                                      IF binder.varname \in DOMAIN ctx
                                      THEN ctx[binder.varname].str ELSE <<>>),
                          slug |-> <<>>]]
      [] OTHER -> [raised |-> FALSE, content |-> content]

Returned(wrote, value) ==
    [status |-> "returned", output |-> <<>>, error |-> "", wrote |-> wrote,
     value |-> value]

Raised(error) ==
    [status |-> "raised", output |-> None, error |-> error, wrote |-> FALSE,
     value |-> StrValue(<<>>)]

\* the loop with the list emptied for every page tagging
final_tag_list_of_last(L, db) ==
    IF Len(L) = 0 THEN <<>> ELSE shlex_split(db[L[Len(L)]].page_tags)

\* the loop of TagsOfTaggedPagesNode.render over the page taggings found
RECURSIVE final_tag_list(_, _)
final_tag_list(L, db) ==
    IF Len(L) = 0 THEN <<>>
    ELSE shlex_split(db[L[1]].page_tags) \o final_tag_list(Tail(L), db)

\* TagsOfTaggedPagesNode.render after bind
TagsOfTaggedPagesNode_render(n, content, db, all) ==
    {Returned(TRUE, SetValue(Range(final_tag_list(L, db)))) :
        L \in Perms(get_by_model(SitePages(db), content.tags, db, all))}

\* render that returns early, without writing, when nothing is found
TaggedPagesNode_render_skip_empty(n, content, db, all) ==
    LET found == get_by_model(SitePages(db), content.tags, db, all)
    IN  IF found = {} THEN {Returned(FALSE, StrValue(<<>>))}
        ELSE {Returned(TRUE, ListValue(Slice(L, n.limit))) :
                L \in order_by(found, n.ordering, db)}

\* TaggedPagesNode.render after bind
TaggedPagesNode_render(n, content, db, all) ==
    LET found == get_by_model(SitePages(db), content.tags, db, all)
    IN  {Returned(TRUE, ListValue(Slice(L, n.limit))) :
            L \in order_by(found, n.ordering, db)}

\* render that stores an empty list when the page does not exist
SimilarPagesNode_render_write_empty(n, content, db, all) ==
    LET hits == {p \in SitePages(db) : db[p].slug = content.slug}
    IN  IF hits = {} THEN {Returned(TRUE, ListValue(<<>>))}
        ELSE IF Cardinality(hits) > 1 THEN {Raised("MultipleObjectsReturned")}
        ELSE {Returned(TRUE, ListValue(Slice(L, n.limit))) :
                L \in get_related(CHOOSE p \in hits : TRUE, SitePages(db), db)}

\* SimilarPagesNode.render after bind
SimilarPagesNode_render(n, content, db, all) ==
    LET hits == {p \in SitePages(db) : db[p].slug = content.slug}
    IN  IF hits = {} THEN {Returned(FALSE, StrValue(<<>>))}
        ELSE IF Cardinality(hits) > 1 THEN {Raised("MultipleObjectsReturned")}
        ELSE {Returned(TRUE, ListValue(Slice(L, n.limit))) :
                L \in get_related(CHOOSE p \in hits : TRUE, SitePages(db), db)}

RenderOutcomes(n, content, db, all) ==
    CASE n.cls = "TagsOfTaggedPagesNode" -> TagsOfTaggedPagesNode_render(n, content, db, all)
      [] n.cls = "TaggedPagesNode"       -> TaggedPagesNode_render(n, content, db, all)
      [] n.cls = "SimilarPagesNode"      -> SimilarPagesNode_render(n, content, db, all)

NoRender == [status |-> "none", output |-> None, error |-> "", wrote |-> FALSE,
             value |-> StrValue(<<>>), queried |-> FALSE,
             used |-> [tags |-> {}, slug |-> <<>>]]

----------------------------------------------------------------------------
(* Inputs *)

W(c) == <<c>>

\* words that may stand between the directive name and the clause tail
HeadWords ==
    { <<DQ, "a">>, <<"b", DQ>>, <<DQ, "a", DQ>>, <<SQ, "a", SQ>>,
      <<DQ>>, <<"v">>, AS, ORDER }

Heads == UNION {[1..k -> HeadWords] : k \in 0..MaxHeadWords}

Tails ==
    { <<>>,
      <<AS>>,
      <<AS, W("r")>>,
      <<AS, <<DQ, "r", DQ>> >>,
      <<ORDER, ALPHABETICAL, AS, W("r")>>,
      <<LIMIT, W("2"), AS, W("r")>>,
      <<ORDER, CHRONOLOGICAL, LIMIT, W("0"), AS, W("r")>> }

CompileTokens == {<<d>> \o h \o t : d \in Directives, h \in Heads, t \in Tails}

Limits == {<<>>, <<LIMIT, W("0")>>, <<LIMIT, W("1")>>, <<LIMIT, W("2")>>}
Orders == {<<>>, <<ORDER, ALPHABETICAL>>, <<ORDER, CHRONOLOGICAL>>}
AsR == <<AS, W("r")>>

\* the directives rendered: literal and variable arguments, every order and
\* limit clause
RenderTokens ==
    {<<TAGS_OF_PAGES_WITH_TAGS>> \o h \o AsR :
        h \in {<<<<DQ, "b", DQ>>>>, <<<<DQ, "b">>, <<"c", DQ>>>>, <<W("v")>>}}
    \cup
    {<<PAGES_WITH_TAGS>> \o h \o o \o l \o AsR :
        h \in {<<<<DQ, "b", DQ>>>>, <<W("v")>>}, o \in Orders, l \in Limits}
    \cup
    {<<PAGES_SIMILAR_WITH>> \o h \o l \o AsR :
        h \in {<<<<SQ, "a", SQ>>>>, <<<<DQ, "c", DQ>>>>, <<W("v")>>}, l \in Limits}

DynamicTokens ==
    {<<d, W("v")>> \o l \o AsR :
        d \in Directives \ {TAGS_OF_PAGES_WITH_TAGS}, l \in {<<>>, <<LIMIT, W("1")>>}}
    \cup {<<TAGS_OF_PAGES_WITH_TAGS, W("v")>> \o AsR}

\* the page rows the database is filled from
Rows ==
    << [site |-> 1, slug |-> W("a"), title |-> 1, publication_date |-> 1,
        page_tags |-> <<"a", SP, "b">>],
       [site |-> 1, slug |-> W("b"), title |-> 2, publication_date |-> 2,
        page_tags |-> <<"b", SP, "c", SP, "b">>],
       [site |-> 2, slug |-> W("c"), title |-> 1, publication_date |-> 3,
        page_tags |-> <<"b", SP, "d">>] >>

\* databases of up to NumPages pages; no operation depends on the order of
\* the primary keys, so one numbering of every collection of rows is enough
Databases ==
    UNION {{[i \in 1..k |-> Rows[f[i]]] :
                f \in {g \in [1..k -> 1..Len(Rows)] :
                          \A i, j \in 1..k : i < j => g[i] <= g[j]}} :
            k \in 0..NumPages}

\* the contexts a render is called with: the variable v unset or a string,
\* the variable r unset or holding an earlier value
Contexts ==
    LET vs == {<<>>, <<"a">>, <<"b", SP, "c">>}
        EmptyCtx == [n \in {} |-> StrValue(<<>>)]
    IN  {IF v = <<>> THEN c ELSE CtxSet(c, W("v"), StrValue(v)) :
            v \in vs, c \in {EmptyCtx, CtxSet(EmptyCtx, W("r"), StrValue(<<"o", "l", "d">>))}}

Threads == {1, 2}

----------------------------------------------------------------------------
(* State machine *)

NoLocal == [status |-> "none", output |-> None, error |-> "", wrote |-> FALSE,
            value |-> StrValue(<<>>), used |-> [tags |-> {}, slug |-> <<>>]]

InitCommon ==
    /\ groups = NoGroups
    /\ node = NoNode
    /\ compiled = "no"
    /\ bound = InitialContent(NoBinder)
    /\ prevBound = InitialContent(NoBinder)
    /\ context = <<>>
    /\ ctxBefore = <<>>
    /\ last = NoRender
    /\ pc = [t \in Threads |-> "idle"]
    /\ tctx = [t \in Threads |-> <<>>]
    /\ tctxIn = [t \in Threads |-> <<>>]
    /\ tlocal = [t \in Threads |-> NoLocal]

\* template compilation: any invocation of the three directives
InitCompile ==
    /\ token \in CompileTokens
    /\ pages = <<>>
    /\ matchAll = FALSE
    /\ InitCommon

\* sequential rendering
Init ==
    /\ token \in RenderTokens
    /\ pages \in Databases
    /\ matchAll \in IF token[1] = PAGES_SIMILAR_WITH THEN {FALSE} ELSE BOOLEAN
    /\ InitCommon

\* two renders of one compiled node at a time
InitConc ==
    /\ token \in DynamicTokens
    /\ pages \in Databases
    /\ matchAll = FALSE
    /\ InitCommon

\* the engine compiles the directive: the registered function builds the node
Compile ==
    /\ compiled = "no"
    /\ LET r == CompileToken(token)
       IN  /\ compiled' = r.status
           /\ node' = r.node
           /\ groups' = r.groups
           /\ bound' = InitialContent(r.node.binder)
           /\ prevBound' = InitialContent(r.node.binder)
    /\ UNCHANGED <<token, pages, matchAll, context, ctxBefore, last,
                   pc, tctx, tctxIn, tlocal>>

\* node.render(context), from bind to return, run on its own
Render ==
    /\ compiled = "ok"
    /\ \E c \in Contexts :
        LET b == BindOp(node.binder, bound, c)
        IN  /\ ctxBefore' = c
            /\ prevBound' = bound
            /\ bound' = b.content
            /\ IF b.raised
               THEN /\ context' = c
                    /\ last' = Raised("KeyError") @@ [queried |-> FALSE, used |-> bound]
               ELSE \E o \in RenderOutcomes(node, b.content, pages, matchAll) :
                    /\ context' = IF o.wrote THEN CtxSet(c, node.var_name, o.value)
                                  ELSE c
                    /\ last' = o @@ [queried |-> TRUE, used |-> b.content]
    /\ UNCHANGED <<token, groups, node, compiled, pages, matchAll,
                   pc, tctx, tctxIn, tlocal>>

\* a render call enters with its own context
StartRender(t) ==
    /\ compiled = "ok"
    /\ pc[t] = "idle"
    /\ \E c \in Contexts :
        /\ tctx' = [tctx EXCEPT ![t] = c]
        /\ tctxIn' = [tctxIn EXCEPT ![t] = c]
    /\ pc' = [pc EXCEPT ![t] = "bind"]
    /\ UNCHANGED <<token, groups, node, compiled, bound, prevBound, pages,
                   matchAll, context, ctxBefore, last, tlocal>>

\* first statement of render: self.parsed_tags.bind(context)
BindStep(t) ==
    /\ pc[t] = "bind"
    /\ LET b == BindOp(node.binder, bound, tctx[t])
       IN  /\ bound' = b.content
           /\ prevBound' = bound
           /\ IF b.raised
              THEN /\ pc' = [pc EXCEPT ![t] = "done"]
                   /\ tlocal' = [tlocal EXCEPT ![t] = Raised("KeyError") @@ [used |-> bound]]
              ELSE /\ pc' = [pc EXCEPT ![t] = "query"]
                   /\ UNCHANGED tlocal
    /\ UNCHANGED <<token, groups, node, compiled, pages, matchAll, context,
                   ctxBefore, last, tctx, tctxIn>>

\* the query, which reads the binder as it is now
QueryStep(t) ==
    /\ pc[t] = "query"
    /\ \E o \in RenderOutcomes(node, bound, pages, matchAll) :
        /\ tlocal' = [tlocal EXCEPT ![t] = o @@ [used |-> bound]]
        /\ pc' = [pc EXCEPT ![t] = IF o.wrote THEN "write" ELSE "done"]
    /\ UNCHANGED <<token, groups, node, compiled, bound, prevBound, pages,
                   matchAll, context, ctxBefore, last, tctx, tctxIn>>

\* context[self.var_name] = ...; return ''
WriteStep(t) ==
    /\ pc[t] = "write"
    /\ tctx' = [tctx EXCEPT ![t] = CtxSet(tctx[t], node.var_name, tlocal[t].value)]
    /\ pc' = [pc EXCEPT ![t] = "done"]
    /\ UNCHANGED <<token, groups, node, compiled, bound, prevBound, pages,
                   matchAll, context, ctxBefore, last, tctxIn, tlocal>>

Next == Compile \/ Render

NextCompile == Compile

NextConc ==
    \/ Compile
    \/ \E t \in Threads : StartRender(t) \/ BindStep(t) \/ QueryStep(t) \/ WriteStep(t)

Spec == Init /\ [][Next]_vars

SpecCompile == InitCompile /\ [][NextCompile]_vars

SpecConc == InitConc /\ [][NextConc]_vars

----------------------------------------------------------------------------
(* Properties.  What a claim expects is written from the directive text,   *)
(* the context handed to render and the database, not from the binder.     *)

R_VAR == W("r")

\* the tags a render has to query with, from the node and its own context
ExpectedTags(n, ctx) ==
    IF n.binder.cls = "StaticTags" THEN parse_tag_input(n.binder.text)
    ELSE IF n.binder.varname \in DOMAIN ctx
    THEN parse_tag_input(ctx[n.binder.varname].str)
    ELSE {}

\* the slug a render has to look up, when there is one
HasExpectedSlug(n, ctx) ==
    n.binder.cls = "StaticSlug" \/ n.binder.varname \in DOMAIN ctx

ExpectedSlug(n, ctx) ==
    IF n.binder.cls = "StaticSlug" THEN n.binder.text ELSE ctx[n.binder.varname].str

ExpectedContent(n, ctx) ==
    IF n.binder.cls \in {"StaticTags", "DynamicTags"}
    THEN [tags |-> ExpectedTags(n, ctx), slug |-> <<>>]
    ELSE [tags |-> {}, slug |-> ExpectedSlug(n, ctx)]

PagesOnSiteWithSlug(slug) ==
    {p \in 1..Len(pages) : pages[p].site = SITE_ID /\ pages[p].slug = slug}

\* C1: when SimilarPagesNode.render finds no page of the current site with the
\* bound slug, it returns the empty string, raises nothing and leaves the
\* render context exactly as it was handed in.
C1_SimilarNotFoundLeavesContext ==
    ( /\ node.cls = "SimilarPagesNode"
      /\ last.status # "none"
      /\ HasExpectedSlug(node, ctxBefore)
      /\ PagesOnSiteWithSlug(ExpectedSlug(node, ctxBefore)) = {} )
    => ( /\ last.status = "returned"
         /\ last.output = <<>>
         /\ context = ctxBefore )

\* a render whose slug exists on another site only, the output variable unset
C1_Witness ==
    /\ node.cls = "SimilarPagesNode"
    /\ last.status = "returned"
    /\ last.queried
    /\ PagesOnSiteWithSlug(last.used.slug) = {}
    /\ \E p \in 1..Len(pages) : pages[p].slug = last.used.slug
    /\ \E p \in 1..Len(pages) : pages[p].site = SITE_ID
    /\ R_VAR \notin DOMAIN context

\* an "as <var>" clause with something before it: the word "as", not the
\* first argument, followed by a word that starts a variable name
HasAsClause(contents) ==
    \E i \in 3..(Len(contents) - 1) :
        contents[i] = AS /\ contents[i + 1][1] \in WordChars

C3_DynamicUsesOwnContext ==
    (IsDynamic(node.binder) /\ last.status # "none")
    => IF last.queried
       THEN /\ last.used = ExpectedContent(node, ctxBefore)
            /\ bound = last.used
       ELSE /\ node.binder.cls = "DynamicSlug"
            /\ node.binder.varname \notin DOMAIN ctxBefore
            /\ last.status = "raised"

\* a later render without the tags variable, after a render that bound tags
C3_Witness ==
    /\ node.binder.cls = "DynamicTags"
    /\ last.queried
    /\ prevBound.tags # {}
    /\ node.binder.varname \notin DOMAIN ctxBefore
    /\ last.used.tags = {}

\* the limit clause as written in the directive
TokenLimit(contents) ==
    IF \E i \in 2..(Len(contents) - 1) : contents[i] = LIMIT
    THEN [given |-> TRUE,
          n |-> int(contents[(CHOOSE i \in 2..(Len(contents) - 1) : contents[i] = LIMIT) + 1])]
    ELSE [given |-> FALSE, n |-> 0]

\* the pages a render of the node matches
MatchingPages ==
    IF node.cls = "SimilarPagesNode"
    THEN LET hits == PagesOnSiteWithSlug(last.used.slug)
         IN  {q \in SitePages(pages) :
                \E p \in hits : q # p /\ SharedTags(pages, p, q) > 0}
    ELSE get_by_model(SitePages(pages), last.used.tags, pages, matchAll)

\* p may stand before q in the ordered list of matching pages
MayPrecede(p, q) ==
    IF node.cls = "SimilarPagesNode"
    THEN \A h \in PagesOnSiteWithSlug(last.used.slug) :
            SharedTags(pages, h, p) >= SharedTags(pages, h, q)
    ELSE IF node.ordering = ALPHABETICAL
    THEN pages[p].title <= pages[q].title
    ELSE pages[p].publication_date >= pages[q].publication_date

\* L is the first entries of an ordered list of all of M
IsPrefixOfOrdered(L, M) ==
    /\ \A i, j \in 1..Len(L) : i # j => L[i] # L[j]
    /\ Range(L) \subseteq M
    /\ \A i, j \in 1..Len(L) : i < j => MayPrecede(L[i], L[j])
    /\ \A i \in 1..Len(L) : \A q \in M \ Range(L) : MayPrecede(L[i], q)

\* C4: pages_with_tags and pages_similar_with with "limit N" store the first N
\* entries of the ordered list of matching pages (all of them when fewer
\* match); without a limit clause they store every matching page.
C4_LimitTruncates ==
    (node.cls \in {"TaggedPagesNode", "SimilarPagesNode"} /\ last.wrote)
    => LET out == context[node.var_name]
           lim == TokenLimit(token)
       IN  /\ out.kind = "list"
           /\ IsPrefixOfOrdered(out.pages, MatchingPages)
           /\ Len(out.pages) = IF lim.given
                               THEN Min(lim.n, Cardinality(MatchingPages))
                               ELSE Cardinality(MatchingPages)

\* "limit 2" with three matching pages: two are stored
C4_Witness ==
    /\ node.cls = "TaggedPagesNode"
    /\ last.wrote
    /\ TokenLimit(token) = [given |-> TRUE, n |-> 2]
    /\ Cardinality(MatchingPages) = 3
    /\ Len(context[node.var_name].pages) = 2

HasOrderClause(contents) == \E i \in 1..Len(contents) : contents[i] = ORDER

\* the directive with "order chronological" written out, before its limit
\* clause and its "as" clause
WithOrderChronological(contents) ==
    LET n == Len(contents)
        cut == IF n >= 5 /\ contents[n - 3] = LIMIT THEN n - 4 ELSE n - 2
    IN  SubSeq(contents, 1, cut) \o <<ORDER, CHRONOLOGICAL>>
            \o SubSeq(contents, cut + 1, n)

\* C5: pages_with_tags without an order clause compiles to the node of the
\* same directive with "order chronological", and what it stores is a result
\* of that node: the matching pages by publication date, latest first.
C5_DefaultIsChronological ==
    (node.cls = "TaggedPagesNode" /\ ~HasOrderClause(token))
    => /\ node = CompileToken(WithOrderChronological(token)).node
       /\ last.wrote =>
            LET out == context[node.var_name].pages
            IN  /\ \A i, j \in 1..Len(out) : i < j =>
                      pages[out[i]].publication_date >= pages[out[j]].publication_date
                /\ \E o \in RenderOutcomes(CompileToken(WithOrderChronological(token)).node,
                                           ExpectedContent(node, ctxBefore), pages, matchAll) :
                      o.value.pages = out

\* no order clause, and the stored list goes against the order of the titles
C5_Witness ==
    /\ node.cls = "TaggedPagesNode"
    /\ ~HasOrderClause(token)
    /\ last.wrote
    /\ LET out == context[node.var_name].pages
       IN  /\ Len(out) >= 2
           /\ pages[out[1]].publication_date > pages[out[2]].publication_date
           /\ pages[out[1]].title > pages[out[2]].title

\* the tags written in the tag string of page p
TagsOfPage(p) == Range(split_strip(pages[p].page_tags, SP))

\* C6: TagsOfTaggedPagesNode.render stores a set holding exactly the tags of
\* the matched pages: every tag of a matched page is in it (once, it is a
\* set), and no other tag is.
C6_AggregatorStoresUnion ==
    (node.cls = "TagsOfTaggedPagesNode" /\ last.wrote)
    => LET out == context[node.var_name]
           matched == get_by_model(SitePages(pages), ExpectedTags(node, ctxBefore),
                                   pages, matchAll)
       IN  /\ out.kind = "set"
           /\ \A p \in matched : TagsOfPage(p) \subseteq out.tags
           /\ \A t \in out.tags : \E p \in matched : t \in TagsOfPage(p)

\* two different matched pages carry a common tag and each a tag of its own
C6_Witness ==
    /\ node.cls = "TagsOfTaggedPagesNode"
    /\ last.wrote
    /\ LET matched == get_by_model(SitePages(pages), last.used.tags, pages, matchAll)
       IN  \E p, q \in matched :
              /\ TagsOfPage(p) \cap TagsOfPage(q) # {}
              /\ TagsOfPage(p) \ TagsOfPage(q) # {}
              /\ TagsOfPage(q) \ TagsOfPage(p) # {}
              /\ context[node.var_name].tags = TagsOfPage(p) \cup TagsOfPage(q)

\* C7: an argument wrapped in matching quotes gives a Static binder holding
\* the text between the quotes, whose content bind never changes; every other
\* argument gives a Dynamic binder named after the argument.
C7_QuotedStaticElseDynamic ==
    compiled = "ok"
    => LET a == groups.tags
           wrapped == Len(a) >= 2 /\ a[1] = a[Len(a)] /\ a[1] \in {DQ, SQ}
       IN  IF wrapped
           THEN /\ IsStatic(node.binder)
                /\ node.binder.text = SubSeq(a, 2, Len(a) - 1)
                /\ bound = InitialContent(node.binder)
           ELSE /\ IsDynamic(node.binder)
                /\ node.binder.varname = a

\* the content of a Static binder never changes
StaticBindIsNoOp ==
    IsStatic(node.binder) => bound = InitialContent(node.binder)

\* C8: the aggregator and the filter, rendered without the variable of their
\* Dynamic tags or with tags matching no page, raise nothing and store an
\* empty collection in the output variable, whatever it held.
C8_NoMatchStoresEmpty ==
    ( /\ node.cls \in {"TagsOfTaggedPagesNode", "TaggedPagesNode"}
      /\ last.status # "none"
      /\ \/ IsDynamic(node.binder) /\ node.binder.varname \notin DOMAIN ctxBefore
         \/ get_by_model(SitePages(pages), ExpectedTags(node, ctxBefore),
                         pages, matchAll) = {} )
    => /\ last.status = "returned"
       /\ node.var_name \in DOMAIN context
       /\ context[node.var_name] =
            IF node.cls = "TagsOfTaggedPagesNode" THEN SetValue({}) ELSE ListValue(<<>>)

\* the variable is missing after a render that found pages, and the output
\* variable held an earlier value
C8_Witness ==
    /\ node.cls = "TaggedPagesNode"
    /\ node.binder.cls = "DynamicTags"
    /\ last.status = "returned"
    /\ node.binder.varname \notin DOMAIN ctxBefore
    /\ prevBound.tags # {}
    /\ SitePages(pages) # {}
    /\ R_VAR \in DOMAIN ctxBefore
    /\ ctxBefore[R_VAR].kind = "str"
    /\ context[R_VAR] = ListValue(<<>>)

\* where the clauses of the directive start, read back from the closing
\* "as <var>": before the limit clause and the order clause, when present
ClauseStart(contents) ==
    LET a == Len(contents) - 1
        l == IF contents[1] # TAGS_OF_PAGES_WITH_TAGS /\ a >= 4
                /\ contents[a - 2] = LIMIT /\ IsDigitWord(contents[a - 1])
             THEN a - 2 ELSE a
    IN  IF contents[1] = PAGES_WITH_TAGS /\ l >= 4
           /\ contents[l - 2] = ORDER
           /\ contents[l - 1] \in {ALPHABETICAL, CHRONOLOGICAL}
        THEN l - 2 ELSE l

\* a literal: words opened and closed by the same quote, which is not inside
IsQuotedLiteral(s) ==
    /\ Len(s) >= 3
    /\ s[1] \in {DQ, SQ}
    /\ s[Len(s)] = s[1]
    /\ \A i \in 2..(Len(s) - 1) : s[i] # s[1]
    /\ s[2] # SP
    /\ s[Len(s) - 1] # SP

\* the invocation is "<directive> <quoted literal> [order ..] [limit N] as <var>"
IsLiteralInvocation(contents) ==
    /\ Len(contents) >= 4
    /\ contents[Len(contents) - 1] = AS
    /\ WordPrefix(contents[Len(contents)]) = contents[Len(contents)]
    /\ ClauseStart(contents) >= 3
    /\ IsQuotedLiteral(Join(SubSeq(contents, 2, ClauseStart(contents) - 1)))

\* C9: for "<directive> <quoted literal> [order ..] [limit N] as <var>", with
\* any words inside the literal, the node has a Static binder holding the
\* literal without its quotes and its output variable is <var>.
C9_LiteralIsStatic ==
    (compiled # "no" /\ IsLiteralInvocation(token))
    => /\ compiled = "ok"
       /\ IsStatic(node.binder)
       /\ node.binder.text = Inner(Join(SubSeq(token, 2, ClauseStart(token) - 1)))
       /\ node.var_name = token[Len(token)]

\* C10: when two renders of one node with a Dynamic binder interleave, each
\* one queries with the value of its own context and stores that result in
\* its own context.
C10_InterleavedRendersUseOwnContext ==
    \A t \in Threads :
        (pc[t] = "done" /\ tlocal[t].status = "returned")
        => /\ tlocal[t].used = ExpectedContent(node, tctxIn[t])
           /\ tlocal[t] \in {o @@ [used |-> ExpectedContent(node, tctxIn[t])] :
                                o \in RenderOutcomes(node, ExpectedContent(node, tctxIn[t]),
                                                     pages, matchAll)}
           /\ tctx[t] = IF tlocal[t].wrote
                        THEN CtxSet(tctxIn[t], node.var_name, tlocal[t].value)
                        ELSE tctxIn[t]

====
